---- MODULE Spec2Model ----
(***************************************************************************)
(* The Spotify Web API client of function-calling.py: construction from    *)
(* the environment, the client-credentials token lifecycle, the            *)
(* authenticated GET with its single 401/403 retry, and the translation of *)
(* error responses into SpotifyAPIError messages.                          *)
(*                                                                         *)
(* The environment (the process environment variables, the clock, the      *)
(* token endpoint and the resource endpoint) is nondeterministic: every    *)
(* requests.post / requests.get either fails in transport or answers with  *)
(* a status and a body drawn from the sets below.                          *)
(***************************************************************************)
EXTENDS Integers, Sequences, FiniteSets, TLC

VARIABLES
    env,        \* os.environ: SPOTIFY_CLIENT_ID, SPOTIFY_CLIENT_SECRET, SPOTIFY_ACCESS_TOKEN
    spotify,    \* the module-level slot `spotify`: NoClient or the SpotifyClient's fields
    now,        \* time.time(), in whole seconds
    ticks,      \* how many times the clock has advanced
    callers,    \* the callers that run tool calls on the shared client
    pc,         \* per caller: where its _get call stands
    hdr,        \* per caller: the token in the local `headers["Authorization"]`
    resp,       \* per caller: the local `resp` of _get
    calls,      \* per caller: the HTTP calls its current tool call has made, in order
    checked,    \* per caller: what the expiry check of line 82 found at line 89
    outcome,    \* per caller: how its last tool call ended
    fetched,    \* the most recent token response that _refresh_token stored
    tokenStatus,    \* per caller: the status of the latest token response of its tool call
    constructions   \* how many SpotifyClient() calls of line 195 returned, how many raised

vars ==
    <<env, spotify, now, ticks, callers, pc, hdr, resp, calls, checked, outcome, fetched,
      tokenStatus, constructions>>

(***************************************************************************)
(* Constants of the program.                                               *)
(***************************************************************************)
DefaultLifetime == 3600
SkewMargin == 60
Inf == 999999999

(***************************************************************************)
(* Bounds of the model.                                                    *)
(***************************************************************************)
StartTime == 100
MaxTicks == 2
MaxFailures == 2
TickSteps == {1, DefaultLifetime - SkewMargin}

AllCallers == {1, 2}

\* Python's None, for the values that are strings otherwise.
None == "<None>"

\* Python truthiness of an Optional[str]: `not v` is true of None and of "".
Truthy(v) == v # None /\ v # ""

(***************************************************************************)
(* The environment variables read by __init__.  Each is unset (None), set  *)
(* to the empty string, or set to a value.                                 *)
(***************************************************************************)
EnvValues(v) == {None, "", v}

Environments ==
    [client_id : EnvValues("id"), client_secret : EnvValues("secret"),
     access_token : EnvValues("static-token")]

\* The module-level `spotify = None` of line 188.
NoClient == [none |-> TRUE]

IsClient(s) == s # NoClient

(***************************************************************************)
(* JSON values as resp.json() returns them: a tagged value, so that the    *)
(* isinstance tests of _extract_error_message can be made.  A dict is a    *)
(* function from its keys.  NotJson is a body on which resp.json() raises  *)
(* ValueError.                                                             *)
(***************************************************************************)
JStr(s) == [type |-> "str", val |-> s]
JInt(n) == [type |-> "int", val |-> n]
JNull == [type |-> "null"]
JList == [type |-> "list"]
JDict(f) == [type |-> "dict", val |-> f]
NotJson == [type |-> "invalid"]
EmptyDict == [k \in {} |-> JNull]

\* dict.get(key, default) and dict.get(key)
DictGet(d, key, default) == IF key \in DOMAIN d THEN d[key] ELSE default

(***************************************************************************)
(* Response bodies.  resp.text is a sequence of chunks, each either one    *)
(* whitespace character or a run of text that neither starts nor ends with *)
(* whitespace; resp.json() is the parse of that text.                      *)
(***************************************************************************)
Whitespace == {" ", "\n", "\t"}

Body(text, json) == [text |-> text, json |-> json]

ErrorBodies ==
    { Body(<<>>, NotJson),
      Body(<<" ", "\n">>, NotJson),
      Body(<<" ", "Service Unavailable", "\n">>, NotJson),
      Body(<<"{\"error\": {\"message\": \"invalid id\"}}">>,
           JDict([error |-> JDict([message |-> JStr("invalid id")])])),
      Body(<<"{\"error\": {\"status\": 401, \"message\": \"\"}}">>,
           JDict([error |-> JDict([status |-> JInt(401), message |-> JStr("")])])),
      Body(<<"{\"error\": {\"status\": 404}}", "\n">>,
           JDict([error |-> JDict([status |-> JInt(404)])])),
      Body(<<"{\"error\": \"invalid_client\"}">>,
           JDict([error |-> JStr("invalid_client")])),
      Body(<<"{\"error\": \"\"}">>, JDict([error |-> JStr("")])),
      Body(<<"{\"error\": 5}">>, JDict([error |-> JInt(5)])),
      Body(<<"{}">>, JDict(EmptyDict)),
      Body(<<"[]">>, JList) }

TracksPayload == JDict([tracks |-> JDict([items |-> JList])])

FeaturesPayload == JDict([audio_features |-> JList])

PayloadBodies ==
    { Body(<<"{\"tracks\": {\"items\": []}}">>, TracksPayload),
      Body(<<"{\"audio_features\": []}">>, FeaturesPayload) }

Bodies == ErrorBodies \cup PayloadBodies

\* The bodies the resource endpoint answers a tool call with: no body, a
\* structured error, a payload.
GetBodies ==
    { Body(<<>>, NotJson),
      Body(<<"{\"error\": {\"message\": \"invalid id\"}}">>,
           JDict([error |-> JDict([message |-> JStr("invalid id")])])),
      Body(<<"{\"tracks\": {\"items\": []}}">>, TracksPayload) }

\* The status codes a final response of requests.get may carry.
Statuses == {101, 200, 204, 304, 400, 401, 403, 404, 500, 599}

\* The status codes the resource endpoint answers a tool call with.
GetStatuses == {200, 304, 401, 403, 404, 500}

\* What requests.get / requests.post produce: a transport failure (a
\* requests.RequestException other than HTTPError, raised by the call
\* itself) or a Response.
TransportFailure == [failed |-> TRUE]

Response(status, body) == [failed |-> FALSE, status_code |-> status, body |-> body]

ResourceResults ==
    {TransportFailure} \cup {Response(s, b) : s \in GetStatuses, b \in GetBodies}

\* With two callers at once, the answers of the resource endpoint are: a
\* transport failure, a payload, a rejection of the token.
ConcurrentResourceResults ==
    { TransportFailure,
      Response(200, Body(<<"{\"tracks\": {\"items\": []}}">>, TracksPayload)),
      Response(401, Body(<<>>, NotJson)) }

\* requests.Response.raise_for_status raises HTTPError for the client and
\* server error classes only.
RaisesForStatus(status) == 400 <= status /\ status < 600

(***************************************************************************)
(* str.strip() on resp.text and the text as one string.                    *)
(***************************************************************************)
RECURSIVE LStrip(_)
LStrip(text) ==
    IF text # <<>> /\ Head(text) \in Whitespace THEN LStrip(Tail(text)) ELSE text

RECURSIVE RStrip(_)
RStrip(text) ==
    IF text # <<>> /\ text[Len(text)] \in Whitespace
    THEN RStrip(SubSeq(text, 1, Len(text) - 1))
    ELSE text

Strip(text) == RStrip(LStrip(text))

RECURSIVE Join(_)
Join(text) == IF text = <<>> THEN "" ELSE Head(text) \o Join(Tail(text))

(***************************************************************************)
(* SpotifyClient._extract_error_message, lines 106-137.                    *)
(***************************************************************************)
\* lines 108-120: the message found in the structured body, None if none.
StructuredMessage(r) ==
    LET payload == IF r.body.json = NotJson THEN JDict(EmptyDict) ELSE r.body.json
    IN  IF payload.type = "dict" /\ "error" \in DOMAIN payload.val
        THEN LET error_obj == payload.val["error"]
             IN  IF error_obj.type = "dict"
                 THEN LET m == DictGet(error_obj.val, "message", JNull)
                      IN  IF m.type = "str" THEN m.val ELSE None
                 ELSE IF error_obj.type = "str" THEN error_obj.val ELSE None
        ELSE None

\* A fallback that takes the raw text as it came, untrimmed.
ExtractedMessageNoStrip(r) ==
    LET message == StructuredMessage(r)
    IN  IF ~Truthy(message)
        THEN LET raw == Join(r.body.text)
             IN  IF raw # "" THEN raw ELSE "Unknown Spotify API error"
        ELSE message

\* lines 121-122: the fallback to the stripped raw text, then to the generic text.
ExtractedMessage(r) ==
    LET message == StructuredMessage(r)
    IN  IF ~Truthy(message)
        THEN LET stripped == Join(Strip(r.body.text))
             IN  IF stripped # "" THEN stripped ELSE "Unknown Spotify API error"
        ELSE message

Guidance403 ==
    "For development apps, ensure the requested resource is available in your market "
    \o "and consider using an Authorization Code token (set SPOTIFY_ACCESS_TOKEN)."

Guidance404 ==
    "This usually means one of the supplied IDs is invalid or unavailable in the current market."

\* A wording without the 404 case.
FormatMessageNo404(status, message) ==
    IF status = 403
    THEN "Spotify API returned 403 Forbidden: " \o message \o ". " \o Guidance403
    ELSE "Spotify API error " \o ToString(status) \o ": " \o message

\* lines 124-137: the status-specific wording.
FormatMessage(status, message) ==
    IF status = 403
    THEN "Spotify API returned 403 Forbidden: " \o message \o ". " \o Guidance403
    ELSE IF status = 404
    THEN "Spotify API returned 404 Not Found: " \o message \o ". " \o Guidance404
    ELSE "Spotify API error " \o ToString(status) \o ": " \o message

ExtractErrorMessage(r) == FormatMessage(r.status_code, ExtractedMessage(r))

(***************************************************************************)
(* The token endpoint.  Its JSON answer carries access_token (a non-empty   *)
(* string, RFC 6749 A.12) and expires_in (whole seconds), either of which  *)
(* may be missing.                                                         *)
(***************************************************************************)
TokenValues == {"tokA", "tokB"}

TokenLifetimes == {60, 3600}

TokenStatuses == {200, 304, 503}

TokenDicts ==
    {[access_token |-> JStr(a), expires_in |-> JInt(e)] : a \in TokenValues, e \in TokenLifetimes}
    \cup {[access_token |-> JStr(a)] : a \in TokenValues}
    \cup {[expires_in |-> JInt(e)] : e \in TokenLifetimes}

TokenResults ==
    {TransportFailure}
    \cup {Response(s, Body(<<>>, NotJson)) : s \in TokenStatuses}
    \cup {Response(s, Body(<<"{...}">>, JDict(d))) : s \in TokenStatuses, d \in TokenDicts}

\* With two callers at once, the answers of the token endpoint are: a
\* refusal, or one of two tokens with the default lifetime.
ConcurrentTokenResults ==
    {Response(503, Body(<<>>, NotJson))}
    \cup {Response(200, Body(<<"{...}">>, JDict([access_token |-> JStr(a)]))) : a \in TokenValues}

(***************************************************************************)
(* How a tool call ends.                                                   *)
(***************************************************************************)
NoOutcome == [kind |-> "none", exc |-> None, message |-> "", value |-> JNull]

Pending == [kind |-> "pending", exc |-> None, message |-> "", value |-> JNull]

Raised(exc, message) == [kind |-> "raised", exc |-> exc, message |-> message, value |-> JNull]

Returned(value) == [kind |-> "returned", exc |-> None, message |-> "", value |-> value]

NoResponse == [none |-> TRUE]

NoFetch == [valid |-> FALSE, time |-> 0, payload |-> EmptyDict]

\* One HTTP call of a tool call: where in _get it was made, the exception
\* it ended in (None if none), and for a resource request the status
\* answered and the bearer token sent, for a token request whether the
\* answer was stored.
TokenCall(at, exc, stored) ==
    [kind |-> "token", at |-> at, exc |-> exc, status |-> 0, bearer |-> "", stored |-> stored]

ResourceCall(at, r, bearer) ==
    [kind |-> "resource", at |-> at, exc |-> IF r.failed THEN "TransportError" ELSE None,
     status |-> IF r.failed THEN 0 ELSE r.status_code, bearer |-> bearer, stored |-> FALSE]

(***************************************************************************)
(* SpotifyClient.__init__, lines 42-52.                                    *)
(***************************************************************************)
\* A construction that fails only when both halves of the pair are missing.
ConstructionFailsBothMissing(e) ==
    ~Truthy(e.access_token) /\ (~Truthy(e.client_id) /\ ~Truthy(e.client_secret))

ConstructionFails(e) ==
    ~Truthy(e.access_token) /\ (~Truthy(e.client_id) \/ ~Truthy(e.client_secret))

\* A construction that does not read SPOTIFY_ACCESS_TOKEN into the client.
NewClientNoOverride(e) ==
    [client_id |-> e.client_id, client_secret |-> e.client_secret,
     token_override |-> None, access_token |-> None, expires_at |-> 0]

NewClient(e) ==
    [client_id |-> e.client_id, client_secret |-> e.client_secret,
     token_override |-> e.access_token, access_token |-> None, expires_at |-> 0]

MissingCredentials == "Missing SPOTIFY_CLIENT_ID or SPOTIFY_CLIENT_SECRET in environment."

(***************************************************************************)
(* SpotifyClient._refresh_token, lines 54-76: the exception it raises      *)
(* (None if it returns) and the client's fields afterwards, given the      *)
(* result r of the POST and the time t read at line 76.                    *)
(***************************************************************************)
\* An expiry without the safety margin of line 76.
ExpiresAtNoMargin(t, payload) ==
    t + DictGet(payload, "expires_in", JInt(DefaultLifetime)).val

ExpiresAt(t, payload) ==
    t + DictGet(payload, "expires_in", JInt(DefaultLifetime)).val - SkewMargin

\* A refresh that drops the cached token when the exchange fails.
RefreshTokenClearsOnFailure(self, r, t) ==
    LET cleared == [self EXCEPT !.access_token = None, !.expires_at = 0]
    IN  IF Truthy(self.token_override)
        THEN [exc |-> None, stored |-> FALSE,
              self |-> [self EXCEPT !.access_token = self.token_override, !.expires_at = Inf]]
        ELSE IF r.failed
        THEN [exc |-> "TransportError", stored |-> FALSE, self |-> cleared]
        ELSE IF RaisesForStatus(r.status_code)
        THEN [exc |-> "HTTPError", stored |-> FALSE, self |-> cleared]
        ELSE IF r.body.json = NotJson
        THEN [exc |-> "JSONDecodeError", stored |-> FALSE, self |-> cleared]
        ELSE IF "access_token" \notin DOMAIN r.body.json.val
        THEN [exc |-> "KeyError", stored |-> FALSE, self |-> cleared]
        ELSE [exc |-> None, stored |-> TRUE,
              self |-> [self EXCEPT !.access_token = r.body.json.val["access_token"].val,
                                    !.expires_at = ExpiresAt(t, r.body.json.val)]]

RefreshToken(self, r, t) ==
    IF Truthy(self.token_override)
    THEN [exc |-> None, stored |-> FALSE,
          self |-> [self EXCEPT !.access_token = self.token_override, !.expires_at = Inf]]
    ELSE IF r.failed
    THEN [exc |-> "TransportError", stored |-> FALSE, self |-> self]
    ELSE IF RaisesForStatus(r.status_code)
    THEN [exc |-> "HTTPError", stored |-> FALSE, self |-> self]
    ELSE IF r.body.json = NotJson
    THEN [exc |-> "JSONDecodeError", stored |-> FALSE, self |-> self]
    ELSE IF "access_token" \notin DOMAIN r.body.json.val
    THEN [exc |-> "KeyError", stored |-> FALSE, self |-> self]
    ELSE [exc |-> None, stored |-> TRUE,
          self |-> [self EXCEPT !.access_token = r.body.json.val["access_token"].val,
                                !.expires_at = ExpiresAt(t, r.body.json.val)]]

\* An expiry check that asks for a fresh token on every call.
NeedsRefreshAlways(self, t) == TRUE

\* An expiry check that still uses a token at the instant it expires.
NeedsRefreshStrict(self, t) == ~Truthy(self.access_token) \/ t > self.expires_at

\* line 82: the cached token cannot be used.
NeedsRefresh(self, t) == ~Truthy(self.access_token) \/ t >= self.expires_at

\* A retry decision that does not look at the static token.
ShouldRetryIgnoringOverride(self, status) == status \in {401, 403}

\* line 93: the response asks for the one retry.
ShouldRetry(self, status) == status \in {401, 403} /\ ~Truthy(self.token_override)

\* lines 99-104: the end of _get on the final response.
FinalOutcome(r) ==
    IF RaisesForStatus(r.status_code)
    THEN Raised("SpotifyAPIError", ExtractErrorMessage(r))
    ELSE IF r.body.json = NotJson
    THEN Raised("JSONDecodeError", "")
    ELSE Returned(r.body.json)

\* A retry that skips the refresh of line 95.
AfterResponseNoRefresh(self, at, r) ==
    IF r.failed
    THEN [pc |-> "idle", outcome |-> Raised("TransportError", "")]
    ELSE IF at = "request" /\ ShouldRetry(self, r.status_code)
    THEN [pc |-> "get_token_retry", outcome |-> Pending]
    ELSE [pc |-> "idle", outcome |-> FinalOutcome(r)]

\* A _get that turns a transport failure of the request into the domain error.
AfterResponseWrapsTransport(self, at, r) ==
    IF r.failed
    THEN [pc |-> "idle", outcome |-> Raised("SpotifyAPIError", "Unknown Spotify API error")]
    ELSE IF at = "request" /\ ShouldRetry(self, r.status_code)
    THEN [pc |-> "refresh_retry", outcome |-> Pending]
    ELSE [pc |-> "idle", outcome |-> FinalOutcome(r)]

\* lines 92-104: what _get does with the result r of the request made at
\* `at`: the transport failure propagates, a first 401/403 of a client
\* without static token goes on to the refresh of line 95, any other
\* response ends _get.
AfterResponse(self, at, r) ==
    IF r.failed
    THEN [pc |-> "idle", outcome |-> Raised("TransportError", "")]
    ELSE IF at = "request" /\ ShouldRetry(self, r.status_code)
    THEN [pc |-> "refresh_retry", outcome |-> Pending]
    ELSE [pc |-> "idle", outcome |-> FinalOutcome(r)]

(***************************************************************************)
(* The state after the module is loaded: no client, every caller idle.     *)
(***************************************************************************)
Init ==
    /\ env \in Environments
    /\ spotify = NoClient
    /\ now = StartTime
    /\ ticks = 0
    /\ callers = {1}
    /\ pc = [c \in AllCallers |-> "idle"]
    /\ hdr = [c \in AllCallers |-> None]
    /\ resp = [c \in AllCallers |-> NoResponse]
    /\ calls = [c \in AllCallers |-> <<>>]
    /\ checked = [c \in AllCallers |-> "none"]
    /\ outcome = [c \in AllCallers |-> NoOutcome]
    /\ fetched = NoFetch
    /\ tokenStatus = [c \in AllCallers |-> 0]
    /\ constructions = [built |-> 0, failed |-> 0]

\* The clock advances.
Tick ==
    /\ ticks < MaxTicks
    /\ \E d \in TickSteps : now' = now + d
    /\ ticks' = ticks + 1
    /\ UNCHANGED <<env, spotify, callers, pc, hdr, resp, calls, checked, outcome, fetched,
                   tokenStatus, constructions>>

(***************************************************************************)
(* A tool call begins: _get_spotify (lines 192-196) constructs the client  *)
(* if the slot is empty, and the convenience method enters _get.  A        *)
(* configuration that makes the construction fail is tried MaxFailures     *)
(* times.                                                                  *)
(***************************************************************************)
\* A _get_spotify that does not look at the slot before constructing.
SlotAlwaysEmpty(slot) == TRUE

\* line 194: `spotify is None`.
SlotEmpty(slot) == slot = NoClient

ToolCall(c) ==
    /\ pc[c] = "idle"
    /\ (SlotEmpty(spotify) /\ ConstructionFails(env)) => constructions.failed < MaxFailures
    /\ hdr' = [hdr EXCEPT ![c] = None]
    /\ resp' = [resp EXCEPT ![c] = NoResponse]
    /\ calls' = [calls EXCEPT ![c] = <<>>]
    /\ checked' = [checked EXCEPT ![c] = "none"]
    /\ tokenStatus' = [tokenStatus EXCEPT ![c] = 0]
    /\ IF SlotEmpty(spotify) /\ ConstructionFails(env)
       THEN /\ outcome' = [outcome EXCEPT ![c] = Raised("RuntimeError", MissingCredentials)]
            /\ constructions' = [constructions EXCEPT !.failed = @ + 1]
            /\ UNCHANGED <<spotify, pc>>
       ELSE /\ spotify' = IF SlotEmpty(spotify) THEN NewClient(env) ELSE spotify
            /\ constructions' = IF SlotEmpty(spotify)
                                THEN [constructions EXCEPT !.built = @ + 1]
                                ELSE constructions
            /\ pc' = [pc EXCEPT ![c] = "get_token"]
            /\ outcome' = [outcome EXCEPT ![c] = Pending]
    /\ UNCHANGED <<env, now, ticks, callers, fetched>>

\* A _get that keeps the header of the rejected request for the retry:
\* the token read at line 96 is not put into it.
GetTokenStaleHeader(c, at, refreshAt, requestAt) ==
    /\ pc[c] = at
    /\ IF Truthy(spotify.token_override)
       THEN /\ hdr' = [hdr EXCEPT ![c] = spotify.token_override]
            /\ pc' = [pc EXCEPT ![c] = requestAt]
       ELSE IF NeedsRefresh(spotify, now)
       THEN /\ pc' = [pc EXCEPT ![c] = refreshAt]
            /\ UNCHANGED hdr
       ELSE /\ hdr' = [hdr EXCEPT ![c] = IF at = "get_token" THEN spotify.access_token ELSE @]
            /\ pc' = [pc EXCEPT ![c] = requestAt]
    /\ checked' = [checked EXCEPT ![c] =
          IF at # "get_token" THEN @
          ELSE IF Truthy(spotify.token_override) THEN "static"
          ELSE IF ~Truthy(spotify.access_token) THEN "absent"
          ELSE IF now >= spotify.expires_at THEN "expired"
          ELSE "valid"]
    /\ UNCHANGED <<env, spotify, now, ticks, callers, resp, calls, outcome, fetched,
                   tokenStatus, constructions>>

(***************************************************************************)
(* _get_token up to its call of _refresh_token, lines 78-82, called from   *)
(* line 89 (at = "get_token") or from line 96 (at = "get_token_retry").    *)
(***************************************************************************)
GetToken(c, at, refreshAt, requestAt) ==
    /\ pc[c] = at
    /\ IF Truthy(spotify.token_override)
       THEN /\ hdr' = [hdr EXCEPT ![c] = spotify.token_override]
            /\ pc' = [pc EXCEPT ![c] = requestAt]
       ELSE IF NeedsRefresh(spotify, now)
       THEN /\ pc' = [pc EXCEPT ![c] = refreshAt]
            /\ UNCHANGED hdr
       ELSE /\ hdr' = [hdr EXCEPT ![c] = spotify.access_token]
            /\ pc' = [pc EXCEPT ![c] = requestAt]
    /\ checked' = [checked EXCEPT ![c] =
          IF at # "get_token" THEN @
          ELSE IF Truthy(spotify.token_override) THEN "static"
          ELSE IF ~Truthy(spotify.access_token) THEN "absent"
          ELSE IF now >= spotify.expires_at THEN "expired"
          ELSE "valid"]
    /\ UNCHANGED <<env, spotify, now, ticks, callers, resp, calls, outcome, fetched,
                   tokenStatus, constructions>>

\* A refresh under a guard: the call made for the expiry check looks at
\* the token state again and makes no POST if another caller has stored a
\* usable token in the meantime.
RefreshSingleFlight(c, at, next) ==
    /\ pc[c] = at
    /\ IF at = "refresh_expiry" /\ ~NeedsRefresh(spotify, now)
       THEN /\ pc' = [pc EXCEPT ![c] = next]
            /\ hdr' = [hdr EXCEPT ![c] = spotify.access_token]
            /\ UNCHANGED <<spotify, calls, fetched, tokenStatus, outcome>>
       ELSE \E r \in IF Cardinality(callers) = 1 THEN TokenResults ELSE ConcurrentTokenResults :
              LET res == RefreshToken(spotify, r, now)
                  posted == ~Truthy(spotify.token_override)
                  inGetToken == at # "refresh_retry"
              IN  /\ spotify' = res.self
                  /\ calls' = [calls EXCEPT ![c] =
                        IF posted THEN Append(@, TokenCall(at, res.exc, res.stored)) ELSE @]
                  /\ fetched' = IF res.stored
                                THEN [valid |-> TRUE, time |-> now, payload |-> r.body.json.val]
                                ELSE fetched
                  /\ tokenStatus' = [tokenStatus EXCEPT ![c] =
                        IF posted /\ ~r.failed THEN r.status_code ELSE 0]
                  /\ IF res.exc # None
                     THEN /\ outcome' = [outcome EXCEPT ![c] = Raised(res.exc, "")]
                          /\ pc' = [pc EXCEPT ![c] = "idle"]
                          /\ UNCHANGED hdr
                     ELSE IF inGetToken /\ res.self.access_token = None
                     THEN /\ outcome' = [outcome EXCEPT ![c] = Raised("AssertionError", "")]
                          /\ pc' = [pc EXCEPT ![c] = "idle"]
                          /\ UNCHANGED hdr
                     ELSE /\ pc' = [pc EXCEPT ![c] = next]
                          /\ hdr' = [hdr EXCEPT ![c] =
                                IF inGetToken THEN res.self.access_token ELSE @]
                          /\ UNCHANGED outcome
    /\ UNCHANGED <<env, now, ticks, callers, resp, checked, constructions>>

(***************************************************************************)
(* _refresh_token, lines 54-76, and the return to its caller: to           *)
(* _get_token, which asserts and returns the token (lines 84-85) into the  *)
(* header of line 89 or 96, or to line 96 of _get.                         *)
(***************************************************************************)
Refresh(c, at, next) ==
    /\ pc[c] = at
    /\ \E r \in IF Cardinality(callers) = 1 THEN TokenResults ELSE ConcurrentTokenResults :
         LET res == RefreshToken(spotify, r, now)
             posted == ~Truthy(spotify.token_override)
             inGetToken == at # "refresh_retry"
         IN  /\ spotify' = res.self
             /\ calls' = [calls EXCEPT ![c] =
                   IF posted THEN Append(@, TokenCall(at, res.exc, res.stored)) ELSE @]
             /\ fetched' = IF res.stored
                           THEN [valid |-> TRUE, time |-> now, payload |-> r.body.json.val]
                           ELSE fetched
             /\ tokenStatus' = [tokenStatus EXCEPT ![c] =
                   IF posted /\ ~r.failed THEN r.status_code ELSE 0]
             /\ IF res.exc # None
                THEN /\ outcome' = [outcome EXCEPT ![c] = Raised(res.exc, "")]
                     /\ pc' = [pc EXCEPT ![c] = "idle"]
                     /\ UNCHANGED hdr
                ELSE IF inGetToken /\ res.self.access_token = None
                THEN /\ outcome' = [outcome EXCEPT ![c] = Raised("AssertionError", "")]
                     /\ pc' = [pc EXCEPT ![c] = "idle"]
                     /\ UNCHANGED hdr
                ELSE /\ pc' = [pc EXCEPT ![c] = next]
                     /\ hdr' = [hdr EXCEPT ![c] = IF inGetToken THEN res.self.access_token ELSE @]
                     /\ UNCHANGED outcome
    /\ UNCHANGED <<env, now, ticks, callers, resp, checked, constructions>>

(***************************************************************************)
(* The resource request of line 92 (at = "request") or its retry of line   *)
(* 97 (at = "request_retry"), and what follows it up to the next call:     *)
(* the retry decision of line 93, or the end of _get, lines 99-104.        *)
(***************************************************************************)
Request(c, at) ==
    /\ pc[c] = at
    /\ \E r \in IF Cardinality(callers) = 1 THEN ResourceResults
                  ELSE ConcurrentResourceResults :
         LET after == AfterResponse(spotify, at, r)
         IN  /\ calls' = [calls EXCEPT ![c] = Append(@, ResourceCall(at, r, hdr[c]))]
             /\ resp' = [resp EXCEPT ![c] = IF r.failed THEN @ ELSE r]
             /\ outcome' = [outcome EXCEPT ![c] = after.outcome]
             /\ pc' = [pc EXCEPT ![c] = after.pc]
    /\ UNCHANGED <<env, spotify, now, ticks, callers, hdr, checked, fetched,
                   tokenStatus, constructions>>

FirstGetToken == \E c \in callers : GetToken(c, "get_token", "refresh_expiry", "request")

ExpiryRefresh == \E c \in callers : Refresh(c, "refresh_expiry", "request")

FirstRequest == \E c \in callers : Request(c, "request")

RetryRefresh == \E c \in callers : Refresh(c, "refresh_retry", "get_token_retry")

RetryGetToken ==
    \E c \in callers : GetToken(c, "get_token_retry", "refresh_recheck", "request_retry")

RecheckRefresh == \E c \in callers : Refresh(c, "refresh_recheck", "request_retry")

RetryRequest == \E c \in callers : Request(c, "request_retry")

StartToolCall == \E c \in callers : ToolCall(c)

Next ==
    \/ Tick
    \/ StartToolCall
    \/ FirstGetToken
    \/ ExpiryRefresh
    \/ FirstRequest
    \/ RetryRefresh
    \/ RetryGetToken
    \/ RecheckRefresh
    \/ RetryRequest

Spec == Init /\ [][Next]_vars

(***************************************************************************)
(* Two callers on the same client, as two threads of one process would     *)
(* run the tool functions: the steps of their gets interleave between the  *)
(* HTTP calls and the reads and writes of the token state.                 *)
(***************************************************************************)
InitConcurrent ==
    /\ env = [client_id |-> "id", client_secret |-> "secret", access_token |-> None]
    /\ spotify = NoClient
    /\ now = StartTime
    /\ ticks = 0
    /\ callers = {1, 2}
    /\ pc = [c \in AllCallers |-> "idle"]
    /\ hdr = [c \in AllCallers |-> None]
    /\ resp = [c \in AllCallers |-> NoResponse]
    /\ calls = [c \in AllCallers |-> <<>>]
    /\ checked = [c \in AllCallers |-> "none"]
    /\ outcome = [c \in AllCallers |-> NoOutcome]
    /\ fetched = NoFetch
    /\ tokenStatus = [c \in AllCallers |-> 0]
    /\ constructions = [built |-> 0, failed |-> 0]

SpecConcurrent == InitConcurrent /\ [][Next]_vars

(***************************************************************************)
(* The end of _get on its own: a client that holds a token has just been   *)
(* answered, with any status and any body, and lines 99-104 run.           *)
(***************************************************************************)
AnsweredEnv == [client_id |-> "id", client_secret |-> "secret", access_token |-> None]

AnsweredClient ==
    [NewClient(AnsweredEnv) EXCEPT !.access_token = "tokA",
                                   !.expires_at = StartTime + DefaultLifetime - SkewMargin]

InitAnswered ==
    /\ env = AnsweredEnv
    /\ spotify = AnsweredClient
    /\ now = StartTime
    /\ ticks = 0
    /\ callers = {1}
    /\ pc = [c \in AllCallers |-> IF c = 1 THEN "answered" ELSE "idle"]
    /\ hdr = [c \in AllCallers |-> IF c = 1 THEN "tokA" ELSE None]
    /\ \E s \in Statuses, b \in Bodies :
         /\ resp = [c \in AllCallers |-> IF c = 1 THEN Response(s, b) ELSE NoResponse]
         /\ calls = [c \in AllCallers |->
                       IF c = 1 THEN <<ResourceCall("request", Response(s, b), "tokA")>>
                       ELSE <<>>]
    /\ checked = [c \in AllCallers |-> IF c = 1 THEN "valid" ELSE "none"]
    /\ outcome = [c \in AllCallers |-> IF c = 1 THEN Pending ELSE NoOutcome]
    /\ fetched = [valid |-> TRUE, time |-> StartTime, payload |-> [access_token |-> JStr("tokA")]]
    /\ tokenStatus = [c \in AllCallers |-> 0]
    /\ constructions = [built |-> 1, failed |-> 0]

HandleResponse ==
    \E c \in callers :
      /\ pc[c] = "answered"
      /\ outcome' = [outcome EXCEPT ![c] = FinalOutcome(resp[c])]
      /\ pc' = [pc EXCEPT ![c] = "idle"]
      /\ UNCHANGED <<env, spotify, now, ticks, callers, hdr, resp, calls, checked, fetched,
                     tokenStatus, constructions>>

NextAnswered == HandleResponse

SpecAnswered == InitAnswered /\ [][NextAnswered]_vars

(***************************************************************************)
(* Vocabulary of the properties.                                           *)
(***************************************************************************)
\* A configuration value is lacking: unset or empty.
Lacking(v) == v \in {None, ""}

\* The configuration carries a static token.
StaticConfigured == ~Lacking(env.access_token)

\* The HTTP calls of caller c's current tool call, by endpoint.
ResourceCalls(c) == SelectSeq(calls[c], LAMBDA e : e.kind = "resource")

TokenCalls(c) == SelectSeq(calls[c], LAMBDA e : e.kind = "token")

\* The position of the first resource request in a log that has one.
FirstResource(log) ==
    CHOOSE i \in 1..Len(log) :
        log[i].kind = "resource" /\ \A j \in 1..(i - 1) : log[j].kind # "resource"

Is2xx(status) == status \in 200..299

\* Caller c's _get has ended on a response: its last call is a resource
\* request that was answered.
EndedOnResponse(c) ==
    /\ pc[c] = "idle"
    /\ calls[c] # <<>>
    /\ calls[c][Len(calls[c])].kind = "resource"
    /\ calls[c][Len(calls[c])].exc = None

(***************************************************************************)
(* C1.  Construction fails with the configuration error (the RuntimeError  *)
(* of line 48), leaving no client, for every configuration that lacks a    *)
(* static token and lacks the client id, the client secret or both; it     *)
(* succeeds whenever a static token is present or both id and secret are.  *)
(***************************************************************************)
C1_ConstructionContract ==
    LET incomplete == Lacking(env.client_id) \/ Lacking(env.client_secret)
        lacks == Lacking(env.access_token) /\ incomplete
    IN  \A c \in AllCallers :
          /\ lacks => spotify = NoClient
          /\ (lacks /\ outcome[c].kind # "none") =>
                outcome[c] = Raised("RuntimeError", MissingCredentials)
          /\ (~lacks /\ outcome[c].kind # "none") =>
                IsClient(spotify) /\ outcome[c].exc # "RuntimeError"

\* A construction was attempted without a static token and with only one
\* half of the pair, and failed.
C1_Witness ==
    /\ Lacking(env.access_token)
    /\ ~Lacking(env.client_id)
    /\ Lacking(env.client_secret)
    /\ outcome[1].exc = "RuntimeError"
    /\ spotify = NoClient

(***************************************************************************)
(* C2.  A client configured with a static token never calls the token      *)
(* endpoint, whatever the time elapsed and the resource responses, and     *)
(* every resource request it makes carries the static token.               *)
(***************************************************************************)
C2_StaticNeverFetches ==
    StaticConfigured =>
        /\ ~fetched.valid
        /\ \A c \in AllCallers :
             \A i \in 1..Len(calls[c]) :
                /\ calls[c][i].kind = "resource"
                /\ calls[c][i].bearer = env.access_token

\* A static-token client has been answered 403 after the clock advanced
\* past the lifetime a fetched token would have had.
C2_Witness ==
    /\ StaticConfigured
    /\ now >= StartTime + DefaultLifetime - SkewMargin
    /\ pc[1] = "idle"
    /\ calls[1] # <<>>
    /\ calls[1][1].status = 403

\* The client exists and was not given a static token.
FetchingClient == IsClient(spotify) /\ ~StaticConfigured

\* The token calls a log holds after its first resource request.
TokenCallsAfterFirstRequest(log) ==
    {j \in (FirstResource(log) + 1)..Len(log) : log[j].kind = "token"}

(***************************************************************************)
(* C3.  Every get issues at most two resource requests; the second only    *)
(* when the first was answered 401 or 403 and the client has no static     *)
(* token; and a non-2xx answer to the second is not retried but surfaces   *)
(* as the domain error.                                                    *)
(***************************************************************************)
C3_AtMostTwoRequests ==
    \A c \in AllCallers :
      LET rs == ResourceCalls(c)
      IN  /\ Len(rs) <= 2
          /\ Len(rs) = 2 => rs[1].status \in {401, 403} /\ ~StaticConfigured
          /\ (Len(rs) = 2 /\ rs[2].exc = None /\ ~Is2xx(rs[2].status)) =>
                /\ pc[c] = "idle"
                /\ outcome[c].kind = "raised"
                /\ outcome[c].exc = "SpotifyAPIError"

(***************************************************************************)
(* C4.  For a client without static token whose first resource response    *)
(* is 401 or 403, exactly one token-endpoint call lies between the first   *)
(* resource request and the retried one, whatever lifetime the token       *)
(* endpoint returns.                                                       *)
(***************************************************************************)
C4_ExactlyOneRefreshBeforeRetry ==
    \A c \in AllCallers :
      LET rs == ResourceCalls(c)
      IN  (/\ FetchingClient
           /\ Len(rs) >= 1
           /\ rs[1].status \in {401, 403}
           /\ (Len(rs) = 2 \/ pc[c] = "request_retry"))
          => Cardinality(TokenCallsAfterFirstRequest(calls[c])) = 1

(***************************************************************************)
(* C5, as stated.  A get of a client without static token that is answered *)
(* 403 and then 200 on the retry makes exactly two calls in total and      *)
(* returns the payload of the retried request.                             *)
(***************************************************************************)
RetriedToSuccess(c) ==
    /\ FetchingClient
    /\ pc[c] = "idle"
    /\ Len(ResourceCalls(c)) = 2
    /\ ResourceCalls(c)[1].status = 403
    /\ ResourceCalls(c)[2].status = 200

C6_StaticNoRetryOn401 ==
    \A c \in AllCallers :
      (StaticConfigured /\ calls[c] # <<>> /\ calls[c][1].status = 401) =>
        /\ Len(calls[c]) = 1
        /\ pc[c] = "idle"
        /\ ~fetched.valid
        /\ spotify.access_token = None
        /\ outcome[c] =
             Raised("SpotifyAPIError", "Spotify API error 401: " \o ExtractedMessage(resp[c]))
        /\ resp[c].body.text = <<>> =>
             outcome[c].message = "Spotify API error 401: Unknown Spotify API error"

\* A static-token client was answered 401 with a structured error body.
C6_Witness ==
    /\ StaticConfigured
    /\ calls[1] # <<>>
    /\ calls[1][1].status = 401
    /\ outcome[1].message = "Spotify API error 401: invalid id"

(***************************************************************************)
(* C7.  Once a get has its final response, it has exactly two outcomes:    *)
(* the domain error for every non-2xx status, the parsed body for every    *)
(* 2xx status.                                                             *)
(***************************************************************************)
C7_TwoOutcomes ==
    \A c \in AllCallers :
      EndedOnResponse(c) =>
        IF Is2xx(resp[c].status_code)
        THEN outcome[c] = Returned(resp[c].body.json)
        ELSE outcome[c].kind = "raised" /\ outcome[c].exc = "SpotifyAPIError"

(***************************************************************************)
(* C8.  When the expiry check at the start of a get finds the cached       *)
(* token expired (clock >= cached expiry), the get makes exactly one       *)
(* token-endpoint call before its first resource request, and makes that   *)
(* request only after the token call has succeeded.                        *)
(***************************************************************************)
C8_OneFetchAfterExpiry ==
    \A c \in AllCallers :
      checked[c] = "expired" =>
        LET log == calls[c]
        IN  IF pc[c] = "refresh_expiry"
            THEN log = <<>>
            ELSE /\ log # <<>>
                 /\ log[1].kind = "token"
                 /\ log[1].at = "refresh_expiry"
                 /\ ~log[1].stored => pc[c] = "idle" /\ Len(log) = 1
                 /\ Len(log) >= 2 => log[1].stored /\ log[2].kind = "resource"

\* A get found the cached token expired, fetched a new one and issued its
\* request with it.
C8_Witness ==
    /\ checked[1] = "expired"
    /\ Len(calls[1]) >= 2
    /\ calls[1][1].stored
    /\ calls[1][2].kind = "resource"
    /\ calls[1][2].bearer = spotify.access_token

(***************************************************************************)
(* C9.  Whenever a client without static token holds a cached token, its   *)
(* cached expiry is the time of the most recent successful fetch plus the  *)
(* lifetime that fetch returned (3600 if it returned none) minus 60; with  *)
(* expires_in = 3600 that is fetch time + 3540, and it is always at least  *)
(* 60 seconds before the expiry the endpoint reported.                     *)
(***************************************************************************)
C9_ExpiryHasMargin ==
    (FetchingClient /\ spotify.access_token # None) =>
        LET reported == IF "expires_in" \in DOMAIN fetched.payload
                        THEN fetched.payload["expires_in"].val
                        ELSE 3600
        IN  /\ fetched.valid
            /\ fetched.payload["access_token"].val = spotify.access_token
            /\ spotify.expires_at = fetched.time + reported - 60
            /\ reported = 3600 => spotify.expires_at = fetched.time + 3540
            /\ spotify.expires_at + 60 <= fetched.time + reported

\* A token was fetched whose response carried no expires_in, and the clock
\* has moved on since.
C9_Witness ==
    /\ FetchingClient
    /\ fetched.valid
    /\ "expires_in" \notin DOMAIN fetched.payload
    /\ now > fetched.time
    /\ spotify.expires_at = fetched.time + 3540

(***************************************************************************)
(* C10.  The error message is a three-way case on the final status, over   *)
(* the extracted message msg: 403 gives "returned 403 Forbidden: msg"      *)
(* followed by the market / authorization-code guidance, 404 gives         *)
(* "returned 404 Not Found: msg" followed by the guidance about supplied   *)
(* IDs, every other status s gives exactly "error s: msg"; so the body     *)
(* {"error": {"message": "invalid id"}} with status 404 gives a message    *)
(* holding both "invalid id" and the 404 guidance.                         *)
(***************************************************************************)
InvalidIdBody ==
    Body(<<"{\"error\": {\"message\": \"invalid id\"}}">>,
         JDict([error |-> JDict([message |-> JStr("invalid id")])]))

\* The decimal wording of the error statuses.
StatusText(status) ==
    CASE status = 400 -> "400"
      [] status = 401 -> "401"
      [] status = 403 -> "403"
      [] status = 404 -> "404"
      [] status = 500 -> "500"
      [] status = 599 -> "599"

C10_ThreeWayWording ==
    \A c \in AllCallers :
      outcome[c].exc = "SpotifyAPIError" =>
        LET status == resp[c].status_code
            msg == ExtractedMessage(resp[c])
            text == outcome[c].message
        IN  /\ status = 403 =>
                 text = "Spotify API returned 403 Forbidden: " \o msg
                        \o ". For development apps, ensure the requested resource is available in your market and consider using an Authorization Code token (set SPOTIFY_ACCESS_TOKEN)."
            /\ status = 404 =>
                 text = "Spotify API returned 404 Not Found: " \o msg
                        \o ". This usually means one of the supplied IDs is invalid or unavailable in the current market."
            /\ status \notin {403, 404} =>
                 text = "Spotify API error " \o StatusText(status) \o ": " \o msg
            /\ (status = 404 /\ resp[c].body = InvalidIdBody) =>
                 text = "Spotify API returned 404 Not Found: invalid id. This usually means one of the supplied IDs is invalid or unavailable in the current market."

\* The 404 answer with the structured "invalid id" body has been turned
\* into the domain error.
C10_Witness ==
    /\ outcome[1].exc = "SpotifyAPIError"
    /\ resp[1].status_code = 404
    /\ resp[1].body = InvalidIdBody

(***************************************************************************)
(* C11.  The extracted message msg of the domain error follows a priority: *)
(* the "message" sub-field of an "error" object; else the "error" string;  *)
(* if that gave no non-empty message (body not parseable, no "error",      *)
(* "error" of another type, message missing or empty) the trimmed raw body *)
(* text; if that is empty too, "Unknown Spotify API error".  So an empty   *)
(* non-JSON body with status 500 gives "error 500: Unknown Spotify API     *)
(* error".                                                                 *)
(***************************************************************************)
\* The raw text of a body with the whitespace at its two ends removed.
TrimmedText(text) ==
    CASE text = <<>> -> ""
      [] text = <<" ", "\n">> -> ""
      [] text = <<" ", "Service Unavailable", "\n">> -> "Service Unavailable"
      [] text = <<"{\"error\": {\"status\": 404}}", "\n">> -> "{\"error\": {\"status\": 404}}"
      [] OTHER -> text[1]

\* The message the structured body offers, "" if it offers none.
OfferedMessage(json) ==
    IF json.type # "dict" \/ "error" \notin DOMAIN json.val THEN ""
    ELSE LET err == json.val["error"]
         IN  IF err.type = "str" THEN err.val
             ELSE IF err.type = "dict" /\ "message" \in DOMAIN err.val
             THEN err.val["message"].val
             ELSE ""

C11_MessagePriority ==
    \A c \in AllCallers :
      outcome[c].exc = "SpotifyAPIError" =>
        LET body == resp[c].body
            offered == OfferedMessage(body.json)
            trimmed == TrimmedText(body.text)
            msg == IF offered # "" THEN offered
                   ELSE IF trimmed # "" THEN trimmed
                   ELSE "Unknown Spotify API error"
        IN  /\ outcome[c].message = FormatMessage(resp[c].status_code, msg)
            /\ (resp[c].status_code = 500 /\ body = Body(<<>>, NotJson)) =>
                 outcome[c].message = "Spotify API error 500: Unknown Spotify API error"

\* A 500 answer whose body is plain text wrapped in whitespace has been
\* turned into the domain error carrying the trimmed text.
C11_Witness ==
    /\ outcome[1].exc = "SpotifyAPIError"
    /\ resp[1].status_code = 500
    /\ resp[1].body = Body(<<" ", "Service Unavailable", "\n">>, NotJson)
    /\ outcome[1].message = "Spotify API error 500: Service Unavailable"

(***************************************************************************)
(* C12.  A transport failure of a resource request or of a token-endpoint  *)
(* call ends the get at once: it is the last call of that get, and the get *)
(* ends with the transport error itself, not with the domain error.        *)
(***************************************************************************)
C12_TransportFailureEndsGet ==
    \A c \in AllCallers :
      \A i \in 1..Len(calls[c]) :
        calls[c][i].exc = "TransportError" =>
          /\ i = Len(calls[c])
          /\ pc[c] = "idle"
          /\ outcome[c] = Raised("TransportError", "")

\* A get was answered 401, refreshed the token, and its retried request
\* failed in transport.
C12_Witness ==
    /\ Len(calls[1]) = 3
    /\ calls[1][1].status = 401
    /\ calls[1][2].kind = "token"
    /\ calls[1][3].kind = "resource"
    /\ calls[1][3].exc = "TransportError"

(***************************************************************************)
(* C13.  Every resource request carries the current token: the static      *)
(* token for a static-token client, otherwise the token returned by the    *)
(* most recent successful token-endpoint call; so the request retried      *)
(* after a 401/403 carries the token the refresh obtained, not the         *)
(* rejected one.  Stated of the request just made, in the state it leaves. *)
(***************************************************************************)
C13_RequestCarriesCurrentToken ==
    \A c \in AllCallers :
      LET log == calls[c]
          n == Len(log)
      IN  (n > 0 /\ log[n].kind = "resource") =>
            IF StaticConfigured
            THEN log[n].bearer = env.access_token
            ELSE /\ fetched.valid
                 /\ log[n].bearer = fetched.payload["access_token"].val
                 /\ log[n].at = "request_retry" =>
                      /\ log[n - 1].kind = "token"
                      /\ log[n - 1].stored

\* A request was rejected with 401 under one token and retried under the
\* different token that the refresh obtained.
C13_Witness ==
    /\ Len(calls[1]) = 3
    /\ calls[1][1].kind = "resource"
    /\ calls[1][1].status = 401
    /\ calls[1][2].stored
    /\ calls[1][3].kind = "resource"
    /\ calls[1][3].bearer # calls[1][1].bearer
    /\ calls[1][3].bearer = fetched.payload["access_token"].val

(***************************************************************************)
(* C14.  When a token-endpoint call fails, with a transport error or with  *)
(* a non-2xx response, the failure reaches the caller of the get unwrapped *)
(* (the transport or HTTP error, not the domain error) and the cached      *)
(* token and its expiry keep the values they had, whether the call was     *)
(* made by the expiry check or on the 401/403 retry path.                  *)
(***************************************************************************)
C14_FailedExchangeKeepsTokenState ==
    [][\A c \in AllCallers :
         LET log == calls'[c]
             n == Len(log)
         IN  (/\ n = Len(calls[c]) + 1
              /\ log[n].kind = "token"
              /\ \/ log[n].exc = "TransportError"
                 \/ tokenStatus'[c] # 0 /\ ~Is2xx(tokenStatus'[c]))
             => /\ spotify' = spotify
                /\ pc'[c] = "idle"
                /\ outcome'[c].kind = "raised"
                /\ outcome'[c].exc \in {"TransportError", "HTTPError"}]_vars

(***************************************************************************)
(* C15.  Token reuse.  A get of a client without static token that finds   *)
(* a cached token whose expiry has not elapsed, and that is not answered   *)
(* 401 or 403, makes no token-endpoint call and leaves the cached token    *)
(* and expiry as they were; the token endpoint is called only when no      *)
(* token is cached, the expiry has elapsed, or a 401/403 was received.     *)
(***************************************************************************)
\* The log holds no resource request that was answered 401 or 403.
NotRejected(log) == \A i \in 1..Len(log) : log[i].status \notin {401, 403}

\* The log holds, before position i, a resource request answered 401 or 403.
RejectedBefore(log, i) ==
    \E j \in 1..(i - 1) : log[j].kind = "resource" /\ log[j].status \in {401, 403}

C15_TokenReuse ==
    /\ [](\A c \in AllCallers :
            /\ (FetchingClient /\ checked[c] = "valid" /\ NotRejected(calls[c])) =>
                  TokenCalls(c) = <<>>
            /\ \A i \in 1..Len(calls[c]) :
                  calls[c][i].kind = "token" =>
                    \/ checked[c] \in {"absent", "expired"} /\ i = 1
                    \/ RejectedBefore(calls[c], i))
    /\ [][\A c \in AllCallers :
            (/\ IsClient(spotify)
             /\ ~StaticConfigured
             /\ checked'[c] = "valid"
             /\ NotRejected(calls'[c]))
            => /\ spotify'.access_token = spotify.access_token
               /\ spotify'.expires_at = spotify.expires_at]_vars

\* A get reused the token an earlier get had fetched: it was answered 404
\* and made no token call.
C15_Witness ==
    /\ FetchingClient
    /\ checked[1] = "valid"
    /\ now > fetched.time
    /\ pc[1] = "idle"
    /\ Len(calls[1]) = 1
    /\ calls[1][1].status = 404
    /\ spotify.access_token = fetched.payload["access_token"].val

(***************************************************************************)
(* C16.  The cached token is absent from construction until the first      *)
(* successful fetch, and once cached it never returns to absent, whatever  *)
(* gets, expiries, 401/403 responses and failed refreshes follow: it is    *)
(* only ever replaced by a newly fetched token.                            *)
(***************************************************************************)
C16_TokenNeverReturnsToAbsent ==
    /\ [](/\ spotify = NoClient => ~fetched.valid
          /\ IsClient(spotify) => (Truthy(spotify.access_token) <=> fetched.valid))
    /\ [][(IsClient(spotify) /\ Truthy(spotify.access_token)) =>
            /\ IsClient(spotify')
            /\ Truthy(spotify'.access_token)
            /\ spotify'.access_token # spotify.access_token =>
                 /\ fetched' # fetched
                 /\ spotify'.access_token = fetched'.payload["access_token"].val]_vars

\* A get found the cached token expired, its refresh was refused by the
\* token endpoint, and the token fetched earlier is still cached.
C16_Witness ==
    /\ checked[1] = "expired"
    /\ Len(calls[1]) = 1
    /\ calls[1][1].exc = "HTTPError"
    /\ fetched.valid
    /\ spotify.access_token = fetched.payload["access_token"].val
    /\ now >= spotify.expires_at

(***************************************************************************)
(* C17.  For a static-token client, the expiry timestamp of the token      *)
(* state is +infinity in every state reached after the client has served   *)
(* a get.                                                                  *)
(***************************************************************************)
C17_StaticExpiryIsInfinite ==
    \A c \in AllCallers :
      (StaticConfigured /\ IsClient(spotify) /\ pc[c] = "idle" /\ calls[c] # <<>>) =>
        spotify.expires_at = Inf

(***************************************************************************)
(* C18.  Nothing synchronizes the refresh.  With two callers running get   *)
(* on the same client without static token, a caller whose expiry check    *)
(* found the token absent or expired makes its own token-endpoint call     *)
(* before its first resource request, whatever the other caller has        *)
(* stored since that check; so when both pass the check before either has  *)
(* stored a token, two token calls are made for the same expiry.           *)
(***************************************************************************)
C18_NoSingleFlight ==
    \A c \in AllCallers :
      (checked[c] \in {"absent", "expired"} /\ pc[c] # "refresh_expiry") =>
        /\ calls[c] # <<>>
        /\ calls[c][1].kind = "token"
        /\ calls[c][1].at = "refresh_expiry"

\* The duplicate refresh: both callers found the token absent, which it is
\* only until the first token is stored, and each then fetched and stored
\* a token of its own.
C18_Witness ==
    /\ callers = {1, 2}
    /\ \A c \in callers :
         /\ checked[c] = "absent"
         /\ calls[c] # <<>>
         /\ calls[c][1].kind = "token"
         /\ calls[c][1].stored

(***************************************************************************)
(* C19.  The client is a lazily-initialized singleton.  Over any sequence  *)
(* of _get_spotify calls at most one client is ever constructed, and every *)
(* call after the first success gets that same instance, so all tool calls *)
(* share one token state; a call whose construction fails leaves the slot  *)
(* empty, so that the next call attempts the construction again.           *)
(***************************************************************************)
C19_LazySingleton ==
    /\ [](/\ constructions.built <= 1
          /\ spotify = NoClient <=> constructions.built = 0)
    /\ [][/\ IsClient(spotify) =>
               /\ constructions' = constructions
               /\ IsClient(spotify')
               /\ spotify'.client_id = spotify.client_id
               /\ spotify'.client_secret = spotify.client_secret
               /\ spotify'.token_override = spotify.token_override
          /\ constructions'.failed # constructions.failed =>
               /\ spotify = NoClient
               /\ spotify' = NoClient
               /\ constructions'.built = 0
               /\ \E c \in callers :
                    outcome'[c] = Raised("RuntimeError", MissingCredentials)
          /\ (spotify = NoClient /\ \E c \in callers : pc[c] = "idle" /\ pc'[c] # "idle") =>
               /\ IsClient(spotify')
               /\ constructions'.built = 1]_vars

\* A later tool call was served by the one client constructed: it found the
\* token that an earlier call had fetched and used it.
C19_Witness ==
    /\ constructions.built = 1
    /\ checked[1] = "valid"
    /\ now > fetched.time
    /\ Len(calls[1]) = 1
    /\ calls[1][1].bearer = fetched.payload["access_token"].val
    /\ outcome[1].kind = "returned"

====
